---- MODULE Spec2Model ----
(***************************************************************************)
(* One user turn of Snowflake_chatbot.py: the Streamlit script connects,   *)
(* reads the chat input, asks Cortex for SQL, and either executes the SQL  *)
(* or falls back to a plain completion.                                    *)
(*                                                                         *)
(* A Python str is modelled as a sequence of tokens (words, a space, a     *)
(* newline, a code fence); str methods are computed token by token.  No    *)
(* token sequence of the alphabet below is valid JSON, so a str that       *)
(* json.loads can parse is a separate value, JsonStr(v), carrying the      *)
(* value it encodes.                                                       *)
(***************************************************************************)
EXTENDS Integers, Sequences, FiniteSets, TLC

VARIABLES conn, pc, query, cortex, sql, execOut, results, complOut, text,
          calls, requests, ui

vars == <<conn, pc, query, cortex, sql, execOut, results, complOut, text,
          calls, requests, ui>>

(***************************************************************************)
(* Bounds of the model.                                                    *)
(***************************************************************************)
\* longest message content enumerated token by token
MaxLen == 3
\* longest tool_calls list
MaxToolCalls == 2
\* longest choices list
MaxChoices == 2

(***************************************************************************)
(* Python values.                                                          *)
(***************************************************************************)
None == [t |-> "None"]
Str(toks) == [t |-> "str", toks |-> toks]
JsonStr(v) == [t |-> "json", v |-> v]
Num(n) == [t |-> "int", n |-> n]
List(l) == [t |-> "list", l |-> l]
Dict(m) == [t |-> "dict", m |-> m]
EmptyMap == <<>>

\* bool(v)
Truthy(v) ==
    CASE v.t = "None" -> FALSE
      [] v.t = "str" -> v.toks # <<>>
      [] v.t = "json" -> TRUE
      [] v.t = "int" -> v.n # 0
      [] v.t = "list" -> v.l # <<>>
      [] v.t = "dict" -> DOMAIN v.m # {}
      [] OTHER -> TRUE

\* a or b
Or(a, b) == IF Truthy(a) THEN a ELSE b

\* isinstance(v, str)
IsStr(v) == v.t \in {"str", "json"}

\* d.get(k) on a dict d
Get(d, k) == IF k \in DOMAIN d.m THEN d.m[k] ELSE None

\* d.get(k, default) on a dict d
GetDefault(d, k, default) == IF k \in DOMAIN d.m THEN d.m[k] ELSE default

(***************************************************************************)
(* str methods over token sequences.                                       *)
(***************************************************************************)
\* the tokens that are not words: a code fence (three backticks), a space,
\* a newline and a single quote
FENCE == "<fence>"
SP == "<sp>"
NL == "<nl>"
QUOTE == "<quote>"

IsSpace(c) == c \in {SP, NL}

LowerTok(c) ==
    CASE c = "SELECT" -> "select"
      [] c = "SQL" -> "sql"
      [] OTHER -> c

\* s.lower()
lower(s) == [i \in 1..Len(s) |-> LowerTok(s[i])]

RECURSIVE lstrip(_)
lstrip(s) == IF s # <<>> /\ IsSpace(Head(s)) THEN lstrip(Tail(s)) ELSE s

RECURSIVE rstrip(_)
rstrip(s) ==
    IF s # <<>> /\ IsSpace(s[Len(s)]) THEN rstrip(SubSeq(s, 1, Len(s) - 1)) ELSE s

\* s.strip()
strip(s) == rstrip(lstrip(s))

\* s.startswith(prefix)
startswith(s, prefix) ==
    Len(s) >= Len(prefix) /\ SubSeq(s, 1, Len(prefix)) = prefix

\* sub in s
contains(s, sub) ==
    \E i \in 1..(Len(s) - Len(sub) + 1) : SubSeq(s, i, i + Len(sub) - 1) = sub

\* index of the first occurrence of token c in s, 0 when there is none
RECURSIVE find(_, _, _)
find(s, c, i) ==
    IF i > Len(s) THEN 0 ELSE IF s[i] = c THEN i ELSE find(s, c, i + 1)

\* s.split(sep) for a one-token separator
RECURSIVE split(_, _)
split(s, sep) ==
    LET i == find(s, sep, 1)
    IN IF i = 0 THEN <<s>>
       ELSE <<SubSeq(s, 1, i - 1)>> \o split(SubSeq(s, i + 1, Len(s)), sep)

\* s.split(sep, 1)
split1(s, sep) ==
    LET i == find(s, sep, 1)
    IN IF i = 0 THEN <<s>>
       ELSE <<SubSeq(s, 1, i - 1), SubSeq(s, i + 1, Len(s))>>

\* s.replace(QUOTE, QUOTE QUOTE): every single quote doubled
RECURSIVE escape(_)
escape(s) ==
    IF s = <<>> THEN <<>>
    ELSE (IF Head(s) = QUOTE THEN <<QUOTE, QUOTE>> ELSE <<Head(s)>>) \o escape(Tail(s))

(***************************************************************************)
(* Control results of a block of code: it returns v, it raises, or it      *)
(* falls through to the statement after it.                                *)
(***************************************************************************)
Ret(v) == [st |-> "ret", v |-> v]
Exc(e) == [st |-> "exc", e |-> e]
Fall == [st |-> "fall"]

\* an exception raised by the interpreter (AttributeError, TypeError,
\* KeyError, IndexError), as opposed to one raised by the warehouse
PythonError == "PythonError"

\* json.loads(x): only a str holding a JSON document parses
json_loads(x) == IF x.t = "json" THEN Ret(x.v) ELSE Exc(PythonError)

\* a Streamlit element written to the page
W(kind, msg) == [w |-> kind, msg |-> msg]
WErr(msg, e) == [w |-> "error", msg |-> msg, e |-> e]
WShow(kind, body) == [w |-> kind, body |-> body]

NoConnection == W("error", "No active connection.")

(***************************************************************************)
(* generate_sql_from_cortex, lines 168-182: the first tool call's          *)
(* arguments.                                                              *)
(***************************************************************************)
\* lines 173-178: arguments as an object or as a JSON string
ArgsOf(first_tool) ==
    LET a == Or(Get(first_tool, "arguments"), Dict(EmptyMap))
    IN IF IsStr(a)
       THEN (IF json_loads(a).st = "ret" THEN json_loads(a).v ELSE Dict(EmptyMap))
       ELSE a

\* the argument keys tried in another order
SqlTextOfQueryFirst(args) ==
    Or(Or(Or(Get(args, "query"), Get(args, "sql_text")), Get(args, "sql")), None)

\* line 180
SqlTextOf(args) ==
    Or(Or(Or(Get(args, "sql"), Get(args, "sql_text")), Get(args, "query")), None)

ToolCallsSql(response_obj) ==
    IF response_obj.t # "dict" THEN Exc(PythonError)
    ELSE LET tool_calls == Or(Get(response_obj, "tool_calls"),
                              GetDefault(response_obj, "tool_calls", List(<<>>)))
         IN IF ~Truthy(tool_calls) THEN Fall
            ELSE IF tool_calls.t # "list" THEN Exc(PythonError)
            ELSE LET first_tool == tool_calls.l[1]
                 IN IF first_tool.t # "dict" THEN Exc(PythonError)
                    ELSE LET args == ArgsOf(first_tool)
                         IN IF args.t # "dict" THEN Exc(PythonError)
                            ELSE IF Truthy(SqlTextOf(args))
                                 THEN Ret(SqlTextOf(args))
                                 ELSE Fall

(***************************************************************************)
(* generate_sql_from_cortex, lines 184-200: SQL in the assistant content.  *)
(***************************************************************************)
\* line 194
FragmentAccepted(p) ==
    \/ startswith(strip(lower(p)), <<"sql">>)
    \/ startswith(strip(p), <<"select", SP>>)
    \/ startswith(lower(strip(p)), <<"with", SP>>)

\* lines 196-197
Cleaned(p) ==
    IF startswith(lower(p), <<"sql">>)
    THEN (IF Len(split1(p, NL)) < 2 THEN Exc(PythonError)
          ELSE Ret(Str(strip(split1(p, NL)[2]))))
    ELSE Ret(Str(strip(p)))

\* lines 193-197
RECURSIVE FenceScan(_)
FenceScan(parts) ==
    IF parts = <<>> THEN Fall
    ELSE IF FragmentAccepted(Head(parts)) THEN Cleaned(Head(parts))
    ELSE FenceScan(Tail(parts))

\* lines 198-200
KeywordScan(content) ==
    IF \/ contains(lower(content), <<"select", SP>>)
       \/ contains(lower(content), <<"from", SP>>)
    THEN Ret(Str(strip(content)))
    ELSE Fall

\* lines 190-200, for one content str
ScanContent(content) ==
    LET f == IF contains(content, <<FENCE>>)
             THEN FenceScan(split(content, FENCE))
             ELSE Fall
    IN IF f.st # "fall" THEN f ELSE KeywordScan(content)

\* lines 187-200, for one entry of choices (a content str is a token str)
ScanChoice(c) ==
    IF c.t # "dict" THEN Exc(PythonError)
    ELSE LET msg == Or(Get(c, "message"), Dict(EmptyMap))
         IN IF msg.t # "dict" THEN Exc(PythonError)
            ELSE LET content == Or(Get(msg, "content"), Str(<<>>))
                 IN IF content.t # "str" THEN Exc(PythonError)
                    ELSE ScanContent(content.toks)

RECURSIVE ScanChoices(_)
ScanChoices(cs) ==
    IF cs = <<>> THEN Fall
    ELSE LET r == ScanChoice(Head(cs))
         IN IF r.st = "fall" THEN ScanChoices(Tail(cs)) ELSE r

\* lines 185-200
ChoicesSql(response_obj) ==
    LET choices == Or(Get(response_obj, "choices"), List(<<>>))
    IN IF choices.t # "list" THEN Exc(PythonError) ELSE ScanChoices(choices.l)

\* lines 168-202: the SQL in a decoded response object
ExtractSql(response_obj) ==
    LET tc == ToolCallsSql(response_obj)
    IN IF tc.st # "fall" THEN tc
       ELSE LET ch == ChoicesSql(response_obj)
            IN IF ch.st # "fall" THEN ch ELSE Ret(None)

(***************************************************************************)
(* What the warehouse answers to one cursor.execute.                       *)
(***************************************************************************)
Raises(e) == [k |-> "raise", e |-> e]
\* fetchone() of a one-column statement: None, or a row whose row[0] is v
NoRow == [k |-> "row", row |-> None]
Row(v) == [k |-> "row", row |-> List(<<v>>)]
\* fetchall() and cursor.description (None, or the column names)
Fetched(description, rows) == [k |-> "rows", description |-> description, rows |-> rows]

NotCalled == [k |-> "not called"]

\* pd.DataFrame
DataFrame(cols, rows) == [t |-> "DataFrame", columns |-> cols, rows |-> rows]
\* DataFrame.empty
Empty(df) == df.rows = <<>> \/ df.columns = <<>>

\* the statement of the Cortex text-to-SQL call, lines 116-137
CortexCallSql(user_query) ==
    [stmt |-> "COMPLETE with tools", model |-> "mistral-large",
     content |-> escape(user_query)]

\* the statement of the plain completion, lines 89-90
CompleteSql(prompt, model) ==
    [stmt |-> "COMPLETE", model |-> model, prompt |-> escape(prompt)]

\* a statement given to run_snowflake_query
QuerySql(q) == [stmt |-> "query", sql |-> q]

(***************************************************************************)
(* generate_sql_from_cortex                                                *)
(***************************************************************************)
\* lines 149-202, after the cursor returned `out`
Decode(out) ==
    IF out.row = None \/ ~Truthy(out.row.l[1])
    THEN [r |-> Ret(None), ui |-> <<W("warning", "Cortex returned empty response.")>>]
    ELSE LET row0 == out.row.l[1]
             parsed == json_loads(row0)
         IN IF parsed.st = "exc" /\ row0.t # "dict"
            THEN [r |-> Ret(None),
                  ui |-> <<W("warning", "Could not parse Cortex response JSON.")>>]
            ELSE LET response_obj == IF parsed.st = "ret" THEN parsed.v ELSE row0
                 IN [r |-> ExtractSql(response_obj),
                     ui |-> <<W("write", "DEBUG: Cortex response object:"),
                              WShow("json", response_obj)>>]

\* lines 114-202: the body of the try block
GenerateTry(user_query, out) ==
    LET shown == <<W("write", "DEBUG: Executing Cortex COMPLETE call (server side)."),
                   WShow("code", CortexCallSql(user_query))>>
    IN IF out.k = "raise"
       THEN [r |-> Exc(out.e), ui |-> shown]
       ELSE [r |-> Decode(out).r, ui |-> shown \o Decode(out).ui]

\* no handler: the exception leaves generate_sql_from_cortex
GenerateNoExcept(t) == t

\* lines 204-208: the handler of the try block
GenerateExcept(t) ==
    IF t.r.st = "exc"
    THEN [r |-> Ret(None),
          ui |-> t.ui \o <<WErr("Cortex text-to-SQL generation failed: ", t.r.e),
                           W("text", "traceback")>>]
    ELSE t

\* lines 103-208; c is the module's conn, out the warehouse's answer
generate_sql_from_cortex(user_query, c, out) ==
    IF ~c
    THEN [r |-> Ret(None), ui |-> <<NoConnection>>, reqs |-> <<>>]
    ELSE LET t == GenerateExcept(GenerateTry(user_query, out))
         IN [r |-> t.r, ui |-> t.ui, reqs |-> <<CortexCallSql(user_query)>>]

(***************************************************************************)
(* run_snowflake_query                                                     *)
(***************************************************************************)
\* a body that reports zero rows as None
RunTryNoneWhenEmpty(out) ==
    IF out.k = "raise" THEN Exc(out.e)
    ELSE IF out.rows = <<>> THEN Ret(None)
    ELSE Ret(DataFrame(IF out.description # None THEN out.description.l ELSE <<>>,
                       out.rows))

\* lines 72-79: the body of the try block
RunTry(out) ==
    IF out.k = "raise" THEN Exc(out.e)
    ELSE LET rows == out.rows
             cols == IF out.description # None THEN out.description.l ELSE <<>>
         IN IF rows = <<>> THEN Ret(DataFrame(cols, <<>>))
            ELSE IF \E i \in 1..Len(rows) : Len(rows[i]) # Len(cols)
                 THEN Exc(PythonError)
                 ELSE Ret(DataFrame(cols, rows))

\* lines 80-82: the handler of the try block
RunExcept(t) ==
    IF t.st = "exc"
    THEN [r |-> Ret(None), ui |-> <<WErr("SQL Execution Error: ", t.e)>>]
    ELSE [r |-> t, ui |-> <<>>]

\* lines 67-82
run_snowflake_query(q, c, out) ==
    IF ~c
    THEN [r |-> Ret(None), ui |-> <<NoConnection>>, reqs |-> <<>>]
    ELSE LET t == RunExcept(RunTry(out))
         IN [r |-> t.r, ui |-> t.ui, reqs |-> <<QuerySql(q)>>]

(***************************************************************************)
(* complete_text                                                           *)
(***************************************************************************)
\* a body that returns the fetched row instead of its first column
CompleteTryWholeRow(out) ==
    IF out.k = "raise" THEN Exc(out.e) ELSE Ret(out.row)

\* lines 89-95: the body of the try block
CompleteTry(out) ==
    IF out.k = "raise" THEN Exc(out.e)
    ELSE IF out.row = None THEN Ret(None)
    ELSE Ret(out.row.l[1])

\* lines 96-98: the handler of the try block
CompleteExcept(t) ==
    IF t.st = "exc"
    THEN [r |-> Ret(None), ui |-> <<WErr("COMPLETE function error: ", t.e)>>]
    ELSE [r |-> t, ui |-> <<>>]

\* lines 84-98
complete_text(prompt, model, c, out) ==
    IF ~c
    THEN [r |-> Ret(None), ui |-> <<NoConnection>>, reqs |-> <<>>]
    ELSE LET t == CompleteExcept(CompleteTry(out))
         IN [r |-> t.r, ui |-> t.ui, reqs |-> <<CompleteSql(prompt, model)>>]

(***************************************************************************)
(* The inputs: questions, and what the warehouse may answer.               *)
(***************************************************************************)
\* all sequences over S of length at most n
RECURSIVE SeqsUpTo(_, _)
SeqsUpTo(S, n) ==
    IF n = 0 THEN {<<>>}
    ELSE LET shorter == SeqsUpTo(S, n - 1)
         IN shorter \cup {Append(s, x) : s \in shorter, x \in S}

Questions == {<<"q">>, <<"it", QUOTE, "s">>}

Alphabet == {FENCE, "sql", "select", "SELECT", "with", "from", "x", SP, NL}

\* contents with one closed fenced block: prefix, fence, label, body, fence, suffix
Prefixes ==
    {<<>>, <<"x", SP>>, <<"with", SP, "x", NL>>, <<"select", SP, "x", NL>>}
Labels ==
    {<<>>, <<"sql", NL>>, <<"SQL", NL>>, <<"sql", SP>>, <<SP, "sql", NL>>, <<NL>>}
Bodies ==
    {<<>>, <<"x">>, <<"select", SP, "x">>, <<"with", SP, "x">>,
     <<"SELECT", SP, "x", SP, "from", SP, "x">>, <<"SELECT", SP, "x", NL>>}
Suffixes == {<<>>, <<NL, "x">>, <<NL, "from", SP, "x">>}
Fenced(prefix, label, body, suffix) ==
    prefix \o <<FENCE>> \o label \o body \o <<FENCE>> \o suffix
FencedContents ==
    {Fenced(a, b, c, d) : a \in Prefixes, b \in Labels, c \in Bodies, d \in Suffixes}

Contents == SeqsUpTo(Alphabet, MaxLen) \cup FencedContents

\* the values of an argument key
S1 == Str(<<"SELECT", SP, "x", SP, "from", SP, "x">>)
S2 == Str(<<"x">>)
ArgKeys == {"sql", "sql_text", "query"}
ArgValues == {None, Str(<<>>), S1, S2}
ArgMaps == UNION {[K -> ArgValues] : K \in SUBSET ArgKeys}

ToolCall(arguments) == Dict([arguments |-> arguments])
FirstToolCalls ==
    {ToolCall(Dict(m)) : m \in ArgMaps}
    \cup {ToolCall(JsonStr(Dict(m))) : m \in ArgMaps}
    \cup {ToolCall(a) : a \in {None, S2, JsonStr(List(<<>>)), JsonStr(None),
                               List(<<S1>>), Num(1)}}
    \cup {Dict(EmptyMap), None, S2}
LaterToolCalls == {ToolCall(Dict([sql |-> S2])), S2}
ToolCallLists ==
    {<<first>> \o rest : first \in FirstToolCalls,
                         rest \in SeqsUpTo(LaterToolCalls, MaxToolCalls - 1)}

Choice(content) == Dict([message |-> Dict([content |-> content])])
FirstChoices ==
    {Choice(Str(c)) : c \in Contents}
    \cup {Choice(None), Choice(Num(1)), Dict(EmptyMap), Dict([message |-> None]),
          Dict([message |-> S2]), S2}
LaterChoices == {Choice(Str(<<"select", SP, "x">>))}
ChoiceLists ==
    {<<first>> \o rest : first \in FirstChoices,
                         rest \in SeqsUpTo(LaterChoices, MaxChoices - 1)}

\* a response object with the given tool_calls and choices ("absent": no key)
Absent == [t |-> "absent"]
Response(tool_calls, choices) ==
    Dict([k \in {x \in {"tool_calls", "choices"} :
                   \/ x = "tool_calls" /\ tool_calls # Absent
                   \/ x = "choices" /\ choices # Absent}
            |-> IF k = "tool_calls" THEN tool_calls ELSE choices])

ToolCallsValues ==
    {Absent, None, List(<<>>), S2, Dict([a |-> None])}
    \cup {List(l) : l \in ToolCallLists}
ChoicesValues ==
    {Absent, None, List(<<>>), S2, Num(1)} \cup {List(l) : l \in ChoiceLists}
FewChoicesValues ==
    {Absent, List(<<Choice(Str(<<"x">>))>>),
     List(<<Choice(Str(<<FENCE, "sql", NL, "select", SP, "x", FENCE>>))>>)}
FewToolCallsValues == {Absent, List(<<ToolCall(Dict([sql |-> S1]))>>)}

ResponseObjects ==
    {Response(tc, ch) : tc \in ToolCallsValues, ch \in FewChoicesValues}
    \cup {Response(tc, ch) : tc \in FewToolCallsValues, ch \in ChoicesValues}

\* replies that are not JSON documents
PlainTexts ==
    {<<"x">>, <<"SELECT", SP, "x", SP, "from", SP, "x">>,
     <<FENCE, "sql", NL, "select", SP, "x", FENCE>>}

CortexOutcomes ==
    {Raises("transport error"), NoRow, Row(None), Row(Str(<<>>))}
    \cup {Row(Str(p)) : p \in PlainTexts}
    \cup {Row(JsonStr(v)) : v \in ResponseObjects}
    \cup {Row(JsonStr(v)) : v \in {None, Num(1), List(<<>>), S2}}
    \cup {Row(Response(tc, Absent)) : tc \in FewToolCallsValues}

ExecOutcomes ==
    {Raises("unknown column"), Fetched(None, <<>>), Fetched(List(<<"c">>), <<>>),
     Fetched(List(<<"c">>), <<<<1>>>>), Fetched(List(<<"c", "d">>), <<<<1, 2>>, <<3, 4>>>>)}

ComplOutcomes ==
    {Raises("transport error"), NoRow, Row(None), Row(Str(<<>>)),
     Row(Str(<<"answer">>)), Row(Str(<<"x">>))}

(***************************************************************************)
(* The script: module load (lines 45-62), then main (lines 213-244).       *)
(***************************************************************************)
Init ==
    /\ conn = FALSE
    /\ pc = "start"
    /\ query = <<>>
    /\ cortex = NotCalled
    /\ sql = None
    /\ execOut = NotCalled
    /\ results = None
    /\ complOut = NotCalled
    /\ text = None
    /\ calls = <<>>
    /\ requests = <<>>
    /\ ui = <<>>

\* lines 45-62: get_conn is cached once it has returned a connection
Connect ==
    /\ pc = "start"
    /\ \E ok \in BOOLEAN :
         /\ conn' = (conn \/ ok)
         /\ ui' = ui \o <<IF conn \/ ok
                          THEN W("info", "Connected to Snowflake")
                          ELSE W("error", "Connection failed")>>
    /\ pc' = "input"
    /\ UNCHANGED <<query, cortex, sql, execOut, results, complOut, text, calls, requests>>

\* lines 219-224
ChatInput ==
    /\ pc = "input"
    /\ \E q \in Questions \cup {<<>>} :
         /\ query' = q
         /\ IF q = <<>>
            THEN pc' = "done" /\ ui' = ui
            ELSE pc' = "generate" /\ ui' = ui \o <<WShow("You asked", q)>>
    /\ UNCHANGED <<conn, cortex, sql, execOut, results, complOut, text, calls, requests>>

\* where main goes after a call that returned or raised: an exception that
\* reaches main is not caught there
After(r, then) == IF r.st = "exc" THEN "fault" ELSE then

\* line 228: if sql
AfterGenerate(g) ==
    After(g.r, IF g.r.st = "ret" /\ Truthy(g.r.v) THEN "execute" ELSE "fallback")

\* a main that falls back to the plain completion when the execution failed
AfterRunFallingBack(r) ==
    IF r.r.st = "ret" /\ r.r.v = None THEN "fallback" ELSE After(r.r, "done")

\* a main that executes the statement again when the execution failed
AfterRunRetrying(r) ==
    IF r.r.st = "ret" /\ r.r.v = None THEN "execute" ELSE After(r.r, "done")

\* lines 231-236: nothing follows the execution
AfterRun(r) == After(r.r, "done")

\* lines 239-244: nothing follows the plain completion
AfterFallback(c) == After(c.r, "done")

\* lines 226-230
GenerateSql ==
    /\ pc = "generate"
    /\ \E out \in (IF conn THEN CortexOutcomes ELSE {NotCalled}) :
         LET g == generate_sql_from_cortex(query, conn, out)
             found == g.r.st = "ret" /\ Truthy(g.r.v)
         IN /\ cortex' = out
            /\ sql' = IF g.r.st = "ret" THEN g.r.v ELSE None
            /\ calls' = Append(calls, [fn |-> "generate_sql_from_cortex", arg |-> query])
            /\ requests' = requests \o g.reqs
            /\ ui' = ui \o g.ui \o
                     (IF found
                      THEN <<W("markdown", "Generated SQL:"),
                             [w |-> "code", body |-> g.r.v, language |-> "sql"]>>
                      ELSE <<>>)
            /\ pc' = AfterGenerate(g)
    /\ UNCHANGED <<conn, query, execOut, results, complOut, text>>

\* lines 231-236
RunQuery ==
    /\ pc = "execute"
    /\ \E out \in (IF conn THEN ExecOutcomes ELSE {NotCalled}) :
         LET r == run_snowflake_query(sql, conn, out)
             shown == r.r.st = "ret" /\ r.r.v # None /\ ~Empty(r.r.v)
         IN /\ execOut' = out
            /\ results' = IF r.r.st = "ret" THEN r.r.v ELSE None
            /\ calls' = Append(calls, [fn |-> "run_snowflake_query", arg |-> sql])
            /\ requests' = requests \o r.reqs
            /\ ui' = ui \o r.ui \o
                     (IF r.r.st = "exc" THEN <<>>
                      ELSE <<W("markdown", "Query Results:"),
                             IF shown THEN WShow("dataframe", r.r.v)
                             ELSE W("warning", "No rows returned.")>>)
            /\ pc' = AfterRun(r)
    /\ UNCHANGED <<conn, query, cortex, sql, complOut, text>>

\* lines 237-244
Fallback ==
    /\ pc = "fallback"
    /\ \E out \in (IF conn THEN ComplOutcomes ELSE {NotCalled}) :
         LET c == complete_text(query, "mistral-large", conn, out)
             got == c.r.st = "ret" /\ Truthy(c.r.v)
         IN /\ complOut' = out
            /\ text' = IF c.r.st = "ret" THEN c.r.v ELSE None
            /\ calls' = Append(calls, [fn |-> "complete_text", arg |-> query])
            /\ requests' = requests \o c.reqs
            /\ ui' = ui \o c.ui \o
                     (IF c.r.st = "exc" THEN <<>>
                      ELSE IF got
                      THEN <<W("markdown", "Generated Response:"), WShow("write", c.r.v)>>
                      ELSE <<W("warning",
                               "Unable to generate SQL or text response from Cortex.")>>)
            /\ pc' = AfterFallback(c)
    /\ UNCHANGED <<conn, query, cortex, sql, execOut, results>>

\* the next interaction reruns the script from the top; only the cached
\* connection survives
Rerun ==
    /\ pc = "done"
    /\ pc' = "start"
    /\ query' = <<>>
    /\ cortex' = NotCalled
    /\ sql' = None
    /\ execOut' = NotCalled
    /\ results' = None
    /\ complOut' = NotCalled
    /\ text' = None
    /\ calls' = <<>>
    /\ requests' = <<>>
    /\ ui' = <<>>
    /\ UNCHANGED conn

Next == Connect \/ ChatInput \/ GenerateSql \/ RunQuery \/ Fallback \/ Rerun

Spec == Init /\ [][Next]_vars

(***************************************************************************)
(* Vocabulary of the properties.                                           *)
(***************************************************************************)
InSeq(s, x) == \E i \in 1..Len(s) : s[i] = x

\* the arguments main passed to fn during this turn, in order
ArgsPassed(fn) ==
    LET RECURSIVE Pick(_)
        Pick(cs) ==
            IF cs = <<>> THEN <<>>
            ELSE (IF Head(cs).fn = fn THEN <<Head(cs).arg>> ELSE <<>>) \o Pick(Tail(cs))
    IN Pick(calls)

\* the statements of one kind sent to the warehouse during this turn, in order
Sent(kind) ==
    LET RECURSIVE Pick(_)
        Pick(rs) ==
            IF rs = <<>> THEN <<>>
            ELSE (IF Head(rs).stmt = kind THEN <<Head(rs)>> ELSE <<>>) \o Pick(Tail(rs))
    IN Pick(requests)

\* the turn's outcome, read off what the page shows last
TurnResult ==
    LET last == ui[Len(ui)]
    IN IF pc # "done" \/ query = <<>> \/ ui = <<>> THEN [kind |-> "none"]
       ELSE IF last.w = "dataframe"
       THEN [kind |-> "Sql", statement |-> sql, result |-> last.body]
       ELSE IF last = W("warning", "No rows returned.")
       THEN (IF \E i \in 1..Len(ui) : ui[i].w = "error"
             THEN [kind |-> "Error"]
             ELSE [kind |-> "Sql", statement |-> sql, result |-> results])
       ELSE IF last.w = "write" THEN [kind |-> "Text", body |-> last.body]
       ELSE IF last = W("warning", "Unable to generate SQL or text response from Cortex.")
       THEN [kind |-> "Empty"]
       ELSE [kind |-> "none"]

\* a SQL statement was extracted in this turn
SqlExtracted == pc \in {"execute", "done"} /\ Truthy(sql)
\* no SQL statement was found in this turn
NoSqlFound == pc \in {"fallback", "done"} /\ query # <<>> /\ ~Truthy(sql)

(***************************************************************************)
(* C1: in a turn where SQL was extracted and its execution raised, the     *)
(* page shows the execution error, the turn is over, and complete_text     *)
(* was not called and sent nothing at any point of the turn.               *)
(***************************************************************************)
ExecutionFailureSurfacedNoFallback ==
    (SqlExtracted /\ execOut.k = "raise") =>
        /\ pc = "done"
        /\ InSeq(ui, WErr("SQL Execution Error: ", execOut.e))
        /\ TurnResult.kind = "Error"
        /\ ArgsPassed("complete_text") = <<>>
        /\ Sent("COMPLETE") = <<>>
        /\ complOut = NotCalled

ExecutionFailureReached ==
    SqlExtracted /\ execOut.k = "raise" /\ pc = "done" /\ results = None

(***************************************************************************)
(* C2: in a turn where generate_sql_from_cortex returned a non-empty       *)
(* statement, run_snowflake_query is called exactly once, with that        *)
(* statement: not yet while main is about to execute, once when the turn   *)
(* is over, whatever the first attempt returned.                           *)
(***************************************************************************)
ExactlyOneExecution ==
    /\ Len(ArgsPassed("run_snowflake_query")) <= 1
    /\ SqlExtracted =>
        \/ pc = "execute" /\ ArgsPassed("run_snowflake_query") = <<>>
                          /\ Sent("query") = <<>>
        \/ pc = "done" /\ ArgsPassed("run_snowflake_query") = <<sql>>
                       /\ Sent("query") = <<QuerySql(sql)>>

OneExecutionAfterFailure ==
    /\ SqlExtracted /\ pc = "done" /\ execOut.k = "raise"
    /\ ArgsPassed("run_snowflake_query") = <<sql>>

(***************************************************************************)
(* C3: in a turn where no SQL was found, complete_text is called exactly   *)
(* once with the question (and, with a connection, sends exactly one       *)
(* completion of the question), no query is executed, and the outcome is   *)
(* Text with the returned text when it is non-empty, Empty otherwise.      *)
(***************************************************************************)
FallbackOnceThenTextOrEmpty ==
    /\ NoSqlFound =>
        /\ ArgsPassed("run_snowflake_query") = <<>>
        /\ Sent("query") = <<>>
        /\ execOut = NotCalled
        /\ pc = "fallback" => ArgsPassed("complete_text") = <<>> /\ Sent("COMPLETE") = <<>>
        /\ pc = "done" =>
            /\ ArgsPassed("complete_text") = <<query>>
            /\ Sent("COMPLETE") =
                 (IF conn THEN <<[stmt |-> "COMPLETE", model |-> "mistral-large",
                                  prompt |-> escape(query)]>>
                  ELSE <<>>)
            /\ LET returned == IF complOut.k = "row" /\ complOut.row # None
                               THEN complOut.row.l[1] ELSE None
               IN /\ text = returned
                  /\ TurnResult = IF Truthy(returned)
                                  THEN [kind |-> "Text", body |-> returned]
                                  ELSE [kind |-> "Empty"]
    /\ Len(ArgsPassed("complete_text")) <= 1

FallbackTextReached ==
    /\ NoSqlFound /\ pc = "done" /\ query = <<"it", QUOTE, "s">>
    /\ complOut = Row(Str(<<"answer">>))
    /\ TurnResult = [kind |-> "Text", body |-> Str(<<"answer">>)]

(***************************************************************************)
(* C4: main never ends in an uncaught exception; while a turn is running  *)
(* its next step can always be taken, whatever the warehouse answered so   *)
(* far, and every step brings the turn closer to its end (so the turn,     *)
(* which runs straight through, ends); a turn started with a question ends *)
(* with an outcome: Sql, Text, Empty or a surfaced error.                  *)
(***************************************************************************)
Running == {"generate", "execute", "fallback"}

\* the number of steps main has left at most
Rank(p) == IF p = "generate" THEN 2 ELSE IF p \in Running THEN 1 ELSE 0

TurnTerminates ==
    /\ [](pc # "fault")
    /\ [](pc \in Running => ENABLED (GenerateSql \/ RunQuery \/ Fallback))
    /\ [][(pc \in Running) =>
            (pc' \in (Running \cup {"done"}) /\ Rank(pc') < Rank(pc))]_vars
    /\ [](pc = "done" /\ query # <<>> =>
            TurnResult.kind \in {"Sql", "Text", "Empty", "Error"})

EverythingFailedReached ==
    /\ pc = "done" /\ cortex = Row(JsonStr(Num(1))) /\ complOut.k = "raise"
    /\ TurnResult.kind = "Empty"

(***************************************************************************)
(* The response of this turn, as the properties read it.                   *)
(***************************************************************************)
Generated == pc \in {"execute", "fallback", "done"} /\ cortex.k = "row" /\ cortex.row # None

\* row[0] of the Cortex call
RawResponse == cortex.row.l[1]

\* the response object: the JSON document of row[0], or row[0] when it is a dict
ResponseObject == IF RawResponse.t = "json" THEN RawResponse.v ELSE RawResponse

JsonResponse == Generated /\ ResponseObject.t = "dict"

\* the first tool call has an argument map, as an object or as a JSON string
HasFirstArgMap ==
    /\ JsonResponse
    /\ "tool_calls" \in DOMAIN ResponseObject.m
    /\ LET tc == ResponseObject.m["tool_calls"]
       IN /\ tc.t = "list" /\ tc.l # <<>>
          /\ tc.l[1].t = "dict" /\ "arguments" \in DOMAIN tc.l[1].m
          /\ LET a == tc.l[1].m["arguments"]
             IN a.t = "dict" \/ (a.t = "json" /\ a.v.t = "dict")

FirstArguments == ResponseObject.m["tool_calls"].l[1].m["arguments"]
FirstArgMap == IF FirstArguments.t = "json" THEN FirstArguments.v.m ELSE FirstArguments.m

\* the response has no tool_calls and one choice, whose content is a str
OnlyContent ==
    /\ JsonResponse
    /\ "tool_calls" \notin DOMAIN ResponseObject.m
    /\ "choices" \in DOMAIN ResponseObject.m
    /\ LET ch == ResponseObject.m["choices"]
       IN /\ ch.t = "list" /\ Len(ch.l) = 1
          /\ ch.l[1].t = "dict" /\ "message" \in DOMAIN ch.l[1].m
          /\ ch.l[1].m["message"].t = "dict"
          /\ "content" \in DOMAIN ch.l[1].m["message"].m
          /\ ch.l[1].m["message"].m["content"].t = "str"

Content == ResponseObject.m["choices"].l[1].m["message"].m["content"].toks

\* the word w occurs in s, in any case
HasWord(s, w) == \E i \in 1..Len(s) : LowerTok(s[i]) = w

(***************************************************************************)
(* C5: when the Cortex call raises, the page shows the failure and neither *)
(* complete_text nor run_snowflake_query is called afterwards in the turn. *)
(***************************************************************************)
TransportFailureEndsTurn ==
    (pc \in {"execute", "fallback", "done"} /\ cortex.k = "raise") =>
        /\ InSeq(ui, WErr("Cortex text-to-SQL generation failed: ", cortex.e))
        /\ ArgsPassed("complete_text") = <<>>
        /\ Sent("COMPLETE") = <<>>
        /\ ArgsPassed("run_snowflake_query") = <<>>

(***************************************************************************)
(* C6: when Cortex returns a plain string without SQL, the turn's outcome  *)
(* is Text with exactly that string as its body.                           *)
(***************************************************************************)
PlainStringBecomesText ==
    (/\ Generated /\ pc = "done"
     /\ RawResponse.t = "str" /\ RawResponse.toks # <<>>
     /\ ~ \E w \in {"select", "with", "from", "sql", FENCE} : HasWord(RawResponse.toks, w))
    => TurnResult = [kind |-> "Text", body |-> RawResponse]

(***************************************************************************)
(* C7, as stated: whenever the first tool call's argument map has a sql    *)
(* key, the extracted SQL is that key's value (an empty value counting as  *)
(* no SQL extracted).                                                      *)
(***************************************************************************)
SqlKeyAlwaysReturned ==
    (HasFirstArgMap /\ "sql" \in DOMAIN FirstArgMap) =>
        \/ sql = FirstArgMap["sql"]
        \/ ~Truthy(sql) /\ ~Truthy(FirstArgMap["sql"])

(***************************************************************************)
(* C7, amended: whenever the first tool call's argument map has a sql key  *)
(* with a non-empty value, the extracted SQL is that value unchanged,      *)
(* whatever the other argument keys, the later tool calls and the choices  *)
(* hold.                                                                   *)
(***************************************************************************)
NonEmptySqlKeyReturned ==
    (HasFirstArgMap /\ "sql" \in DOMAIN FirstArgMap /\ Truthy(FirstArgMap["sql"])) =>
        /\ sql = FirstArgMap["sql"]
        /\ SqlExtracted

SqlKeyPreferredReached ==
    /\ HasFirstArgMap /\ FirstArguments.t = "json"
    /\ FirstArgMap = [sql |-> S1, sql_text |-> S2, query |-> S2]
    /\ Len(ResponseObject.m["tool_calls"].l) > 1
    /\ "choices" \in DOMAIN ResponseObject.m
    /\ ResponseObject.m["choices"] =
         List(<<Choice(Str(<<FENCE, "sql", NL, "select", SP, "x", FENCE>>))>>)
    /\ sql = S1 /\ pc = "done"

(***************************************************************************)
(* C8: a content without fences that holds only one of the words select    *)
(* and from yields no SQL, so nothing is executed.                         *)
(***************************************************************************)
KeywordScanNeedsBoth ==
    (/\ OnlyContent
     /\ ~HasWord(Content, FENCE)
     /\ HasWord(Content, "select") # HasWord(Content, "from"))
    => /\ ~Truthy(sql)
       /\ ArgsPassed("run_snowflake_query") = <<>>

(***************************************************************************)
(* C9: a content whose first fenced block is labeled sql and is not empty  *)
(* yields exactly that block's content, trimmed and without the label.     *)
(***************************************************************************)
\* the first fenced block of the content, label included
FirstBlock == split(Content, FENCE)[2]

\* the block's content: what follows the label line
BlockBody == strip(SubSeq(FirstBlock, 3, Len(FirstBlock)))

LabeledFenceExtracted ==
    (/\ OnlyContent
     /\ Len(split(Content, FENCE)) >= 3
     /\ startswith(lower(FirstBlock), <<"sql", NL>>)
     /\ BlockBody # <<>>)
    => sql = Str(BlockBody)

(***************************************************************************)
(* C10: an execution that succeeds yields a table with the cursor's column *)
(* names and rows, also when there are no rows, and never None; an         *)
(* execution that raises, or a missing connection, yields None.            *)
(***************************************************************************)
ZeroRowsIsNotFailure ==
    /\ (pc = "done" /\ execOut # NotCalled) =>
         /\ execOut.k = "rows" =>
              /\ results # None
              /\ results = DataFrame(IF execOut.description = None THEN <<>>
                                     ELSE execOut.description.l, execOut.rows)
         /\ execOut.k = "raise" => results = None
    /\ \A out \in ExecOutcomes :
         /\ run_snowflake_query(sql, FALSE, out).r = Ret(None)
         /\ out.k = "rows" => run_snowflake_query(sql, TRUE, out).r # Ret(None)

ZeroRowsReached ==
    /\ pc = "done" /\ execOut = Fetched(List(<<"c">>), <<>>)
    /\ results = DataFrame(<<"c">>, <<>>)

====
